---- MODULE Spec2Model ----
(***************************************************************************)
(* Progressive-growing GAN networks of pggan/nets.py: the Generator and    *)
(* the Discriminator, their growth operation add_block, the alpha control  *)
(* set_new_alpha, Generator.get_output_size and the two forward passes.    *)
(*                                                                         *)
(* Tensors are symbolic: a tensor is the record of its channel depth, its  *)
(* spatial side, the blocks it went through (path), the colour adapter it  *)
(* went through (adapter) and, for a blend, its weight and two operands.   *)
(* alpha is kept as a numerator over AlphaDen, so alpha = 1 is AlphaDen.   *)
(* A forward pass is a sequence of steps (pc); an exception ends the call  *)
(* in pc = "raised" with its class in err.                                 *)
(***************************************************************************)
EXTENDS Integers, Sequences, FiniteSets

\* ---------------------------------------------------------------- bounds
MaxBlocks == 3      \* growth blocks added to one network
MaxDepth  == 2      \* channel depths are drawn from 1..MaxDepth
AlphaDen  == 2      \* alpha takes the values k / AlphaDen

\* ------------------------------------------------------ program constants
BaseSide  == 4      \* x.view(x.size()[0], -1, 4, 4)
OutputDim == 3      \* output_dim=3
InputDim  == 3      \* input_dim=3

Depths      == 1..MaxDepth
AlphaInputs == (-1)..(AlphaDen + 1)
FirstBlockId == -1  \* path entry of Generator.first_block
LastBlockId  == -2  \* path entry of Discriminator.minibatch_normalization_block

VARIABLES
    net,          \* "G" or "D": the instance this behaviour's caller drives
    G,            \* the Generator object's fields
    D,            \* the Discriminator object's fields
    pc,           \* position of the call in progress ("idle" between calls)
    call,         \* the method in progress or just ended
    arg,          \* its integer argument (alpha numerator, depth, input side)
    err,          \* exception class that ended the call, "none" otherwise
    x, x_prev, y, \* locals of forward (Unbound until assigned)
    apply_merge,  \* local of Discriminator.forward
    i,            \* loop index of forward
    out,          \* value returned by forward
    ret,          \* value returned by get_output_size (a side), else 0
    trace         \* snapshots/branches/blends taken by the pass, in order

vars == <<net, G, D, pc, call, arg, err, x, x_prev, y, apply_merge, i, out, ret, trace>>

\* ------------------------------------------------------------- sequences
\* Python indexing of a list held as a 1-based sequence: s[k], k may be negative.
PyHas(s, k) == IF k >= 0 THEN k < Len(s) ELSE -k <= Len(s)
PyAt(s, k)  == IF k >= 0 THEN s[k + 1] ELSE s[Len(s) + k + 1]
PyPos(s, k) == IF k >= 0 THEN k ELSE Len(s) + k

RECURSIVE Pow2(_)
Pow2(n) == IF n <= 0 THEN 1 ELSE 2 * Pow2(n - 1)

\* --------------------------------------------------------------- tensors
Tensor(kind, depth, side, path, adapter, scaled) ==
    [kind |-> kind, depth |-> depth, side |-> side, path |-> path,
     adapter |-> adapter, scaled |-> scaled, w |-> 0, mix |-> <<>>]

Unbound == Tensor("unbound", 0, 0, <<>>, -1, FALSE)
IsBound(t) == t.kind # "unbound"

NoOut == [value |-> Unbound, activated |-> FALSE, feature |-> FALSE]

\* a * w + b * (1 - w); torch refuses operands whose shapes differ
SameShape(a, b) == a.depth = b.depth /\ a.side = b.side
Blend(w, a, b) ==
    [kind |-> "blend", depth |-> b.depth, side |-> b.side, path |-> b.path,
     adapter |-> b.adapter, scaled |-> FALSE, w |-> w, mix |-> <<a, b>>]

Event(ev, t) == [ev |-> ev, adapter |-> t.adapter, path |-> t.path]

\* ------------------------------------------------- layers (lib.blocks API)
\* ProgressiveGeneratorBlock(prev_depth, new_depth, is_first): [upsample x2 unless
\* first] -> conv(prev_depth -> new_depth) -> conv(new_depth -> new_depth)
ProgressiveGeneratorBlock(prev_depth, new_depth, is_first) ==
    [din |-> prev_depth, dout |-> new_depth, is_first |-> is_first]

GeneratorBlockForward(b, id, t) ==
    Tensor("feat", b.dout, IF b.is_first THEN t.side ELSE 2 * t.side,
           Append(t.path, id), t.adapter, FALSE)

\* toRGBBlock(depth, output_dim): projection depth -> output_dim, the result
\* upsampled x2 when apply_upscale
toRGBBlock(depth, output_dim) == [din |-> depth, dout |-> output_dim]

toRGBForward(b, j, t, apply_upscale) ==
    Tensor("rgb", b.dout, IF apply_upscale THEN 2 * t.side ELSE t.side,
           t.path, j, apply_upscale)

\* ProgressiveDiscriminatorBlock(new_depth, prev_depth): conv(new_depth ->
\* new_depth) -> conv(new_depth -> prev_depth) -> downsample x2
ProgressiveDiscriminatorBlock(new_depth, prev_depth) ==
    [din |-> new_depth, dout |-> prev_depth, is_first |-> FALSE]

DiscriminatorBlockForward(b, id, t) ==
    Tensor("feat", b.dout, t.side \div 2, Append(t.path, id), t.adapter, FALSE)

\* fromRGBBlock(input_dim, depth): projection input_dim -> depth, the input
\* downsampled x2 first when apply_downscale
fromRGBBlock(input_dim, depth) == [din |-> input_dim, dout |-> depth]

fromRGBForward(b, j, t, apply_downscale) ==
    Tensor("feat", b.dout, IF apply_downscale THEN t.side \div 2 ELSE t.side,
           t.path, j, apply_downscale)

\* LastProgressiveDiscriminatorBlock(depth): minibatch statistic, then the conv
\* that collapses the 4x4 grid to the depth features of the decision layer
LastProgressiveDiscriminatorBlock(depth) ==
    [din |-> depth, dout |-> depth, is_first |-> FALSE]

LastBlockForward(b, t) ==
    Tensor("feat", b.dout, 1, Append(t.path, LastBlockId), t.adapter, FALSE)

\* a layer accepts only the channel depth it was built for
Fits(b, t) == t.depth = b.din
\* a x2 downsample needs an even side
Halvable(t) == t.side >= 2 /\ t.side % 2 = 0

\* ------------------------------------------------------------ call frames
Enter(name, a) == pc = "idle" /\ call' = name /\ arg' = a

Raise(e) == pc' = "raised" /\ err' = e

Done == pc' = "done" /\ err' = "none"

\* a call ends; its locals and its result go with it
Return ==
    /\ pc \in {"done", "raised"}
    /\ pc' = "idle" /\ call' = "none" /\ arg' = 0 /\ err' = "none"
    /\ x' = Unbound /\ x_prev' = Unbound /\ y' = Unbound
    /\ apply_merge' = FALSE /\ i' = 0 /\ out' = NoOut /\ ret' = 0 /\ trace' = <<>>
    /\ UNCHANGED <<net, G, D>>

\* -------------------------------------------------------------- Generator
Generator(first_depth, generationActivation, output_dim) ==
    [block_depths |-> <<first_depth>>,
     first_depth  |-> first_depth,
     blocks       |-> <<>>,
     toRGB_blocks |-> <<toRGBBlock(first_depth, output_dim)>>,
     first_block  |-> ProgressiveGeneratorBlock(first_depth, first_depth, TRUE),
     output_dim   |-> output_dim,
     alpha        |-> 0,
     generationActivation |-> generationActivation]

\* attributes the instance has after __init__ (instance fields and submodules)
G_attrs ==
    {"equalizedlR", "initBiasToZero", "leakyRelu", "apply_pixel_norm", "pixel_norm",
     "block_depths", "first_depth", "blocks", "toRGB_blocks", "latent_dim",
     "latent_format_layer", "output_dim", "first_block", "alpha",
     "generationActivation"}

G_hasattr(name) == name \in G_attrs

G_getattr(name) ==
    CASE name = "toRGB_blocks" -> G.toRGB_blocks
      [] name = "blocks"       -> G.blocks
      [] name = "block_depths" -> G.block_depths
      [] OTHER                 -> <<>>

G_get_output_size ==
    /\ net = "G" /\ Enter("G.get_output_size", 0)
    /\ IF G_hasattr("toRGBLayers")
          THEN ret' = BaseSide * Pow2(Len(G_getattr("toRGBLayers")) - 1) /\ Done
          ELSE ret' = 0 /\ Raise("AttributeError")
    /\ UNCHANGED <<net, G, D, x, x_prev, y, apply_merge, i, out, trace>>

\* add_block that also restarts the blend
G_add_block_resets_alpha(new_depth) ==
    LET prev_depth == PyAt(G.block_depths, -1) IN
    [G EXCEPT
       !.block_depths = Append(@, new_depth),
       !.blocks       = Append(@, ProgressiveGeneratorBlock(prev_depth, new_depth, FALSE)),
       !.toRGB_blocks = Append(@, toRGBBlock(new_depth, G.output_dim)),
       !.alpha        = 0]

G_add_block_result(new_depth) ==
    LET prev_depth == PyAt(G.block_depths, -1) IN
    [G EXCEPT
       !.block_depths = Append(@, new_depth),
       !.blocks       = Append(@, ProgressiveGeneratorBlock(prev_depth, new_depth, FALSE)),
       !.toRGB_blocks = Append(@, toRGBBlock(new_depth, G.output_dim))]

G_add_block(new_depth) ==
    /\ net = "G" /\ Enter("G.add_block", new_depth)
    /\ Len(G.blocks) < MaxBlocks
    /\ G' = G_add_block_result(new_depth)
    /\ Done
    /\ UNCHANGED <<net, D, x, x_prev, y, apply_merge, i, out, ret, trace>>

\* range check that excludes the upper boundary
G_alpha_rejected_strict(alpha) == alpha < 0 \/ alpha >= AlphaDen

G_alpha_rejected(alpha) == alpha < 0 \/ alpha > AlphaDen

G_no_scale == Len(G.toRGB_blocks) = 0

G_set_new_alpha(alpha) ==
    /\ net = "G" /\ Enter("G.set_new_alpha", alpha)
    /\ IF G_alpha_rejected(alpha)
          THEN Raise("ValueError") /\ G' = G
          ELSE IF G_no_scale
                  THEN Raise("AttributeError") /\ G' = G
                  ELSE G' = [G EXCEPT !.alpha = alpha] /\ Done
    /\ UNCHANGED <<net, D, x, x_prev, y, apply_merge, i, out, ret, trace>>

\* lines 141-152: pixel norm, format layer, reshape to a first_depth x 4 x 4 grid,
\* pixel norm, first block
G_forward_first ==
    /\ net = "G" /\ Enter("G.forward", 0)
    /\ LET grid == Tensor("feat", G.first_depth, BaseSide, <<>>, -1, FALSE) IN
       IF Fits(G.first_block, grid)
          THEN x' = GeneratorBlockForward(G.first_block, FirstBlockId, grid)
               /\ pc' = "g_pre" /\ err' = "none"
          ELSE x' = grid /\ Raise("ShapeError")
    /\ UNCHANGED <<net, G, D, x_prev, y, apply_merge, i, out, ret, trace>>

\* x_prev = self.toRGB_blocks[-2](x, apply_upscale=True), applied to tensor t
G_snapshot_error(t) ==
    IF ~PyHas(G.toRGB_blocks, -2) THEN "IndexError"
    ELSE IF ~Fits(PyAt(G.toRGB_blocks, -2), t) THEN "ShapeError"
    ELSE "none"

G_snapshot(t) ==
    toRGBForward(PyAt(G.toRGB_blocks, -2), PyPos(G.toRGB_blocks, -2), t, TRUE)

\* line 156
G_snapshot_before_loop == G.alpha > 0 /\ Len(G.blocks) = 1

\* loop snapshot taken whatever alpha is
G_snapshot_in_loop_any_alpha(k) == k = Len(G.blocks) - 2

\* loop snapshot taken after the last block instead of the second-to-last
G_snapshot_in_loop_last(k) == G.alpha > 0 /\ k = Len(G.blocks) - 1

\* line 165, k the index of the block just run
G_snapshot_in_loop(k) == G.alpha > 0 /\ k = Len(G.blocks) - 2

\* line 173
G_blends == G.alpha > 0

G_forward_pre ==
    /\ pc = "g_pre"
    /\ IF G_snapshot_before_loop /\ G_snapshot_error(x) # "none"
          THEN Raise(G_snapshot_error(x)) /\ UNCHANGED <<x_prev, trace, i>>
          ELSE /\ pc' = "g_loop" /\ err' = "none" /\ i' = 0
               /\ IF G_snapshot_before_loop
                     THEN /\ x_prev' = G_snapshot(x)
                          /\ trace' = Append(trace, Event("snapshot", G_snapshot(x)))
                     ELSE UNCHANGED <<x_prev, trace>>
    /\ UNCHANGED <<net, G, D, call, arg, x, y, apply_merge, out, ret>>

\* one iteration of: for i, block in enumerate(self.blocks, 0)
G_forward_loop ==
    /\ pc = "g_loop" /\ i < Len(G.blocks)
    /\ LET block == PyAt(G.blocks, i)
           nx    == GeneratorBlockForward(block, i, x) IN
       IF ~Fits(block, x)
          THEN Raise("ShapeError") /\ UNCHANGED <<x, x_prev, trace, i>>
          ELSE IF G_snapshot_in_loop(i) /\ G_snapshot_error(nx) # "none"
                  THEN Raise(G_snapshot_error(nx)) /\ x' = nx
                       /\ UNCHANGED <<x_prev, trace, i>>
                  ELSE /\ x' = nx /\ i' = i + 1 /\ UNCHANGED <<pc, err>>
                       /\ IF G_snapshot_in_loop(i)
                             THEN /\ x_prev' = G_snapshot(nx)
                                  /\ trace' = Append(trace, Event("snapshot", G_snapshot(nx)))
                             ELSE UNCHANGED <<x_prev, trace>>
    /\ UNCHANGED <<net, G, D, call, arg, y, apply_merge, out, ret>>

\* x = self.toRGB_blocks[-1](x)
G_forward_toRGB ==
    /\ pc = "g_loop" /\ i = Len(G.blocks)
    /\ IF ~Fits(PyAt(G.toRGB_blocks, -1), x)
          THEN Raise("ShapeError") /\ x' = x
          ELSE /\ x' = toRGBForward(PyAt(G.toRGB_blocks, -1),
                                    PyPos(G.toRGB_blocks, -1), x, FALSE)
               /\ pc' = "g_blend" /\ err' = "none"
    /\ UNCHANGED <<net, G, D, call, arg, x_prev, y, apply_merge, i, out, ret, trace>>

\* lines 173-179: the blend, the final activation, return
G_forward_blend ==
    /\ pc = "g_blend"
    /\ IF G_blends /\ ~IsBound(x_prev)
          THEN Raise("UnboundLocalError") /\ UNCHANGED <<x, out, trace>>
          ELSE IF G_blends /\ ~SameShape(x_prev, x)
                  THEN Raise("ShapeError") /\ UNCHANGED <<x, out, trace>>
                  ELSE /\ x' = IF G_blends THEN Blend(G.alpha, x_prev, x) ELSE x
                       /\ trace' = IF G_blends
                                      THEN Append(trace, Event("blend", x))
                                      ELSE trace
                       /\ out' = [value |-> x', activated |-> G.generationActivation,
                                  feature |-> FALSE]
                       /\ Done
    /\ UNCHANGED <<net, G, D, call, arg, x_prev, y, apply_merge, i, ret>>

\* ---------------------------------------------------------- Discriminator
Discriminator(last_depth, input_dim) ==
    [depths         |-> <<last_depth>>,
     blocks         |-> <<>>,
     fromRGB_blocks |-> <<fromRGBBlock(input_dim, last_depth)>>,
     minibatch_normalization_block |-> LastProgressiveDiscriminatorBlock(last_depth),
     input_dim      |-> input_dim,
     alpha          |-> 0]

\* add_block that forgets the new fromRGB adapter
D_add_block_no_adapter(new_depth) ==
    LET prev_depth == PyAt(D.depths, -1) IN
    [D EXCEPT
       !.depths = Append(@, new_depth),
       !.blocks = Append(@, ProgressiveDiscriminatorBlock(new_depth, prev_depth))]

\* add_block that passes the block's two depths in the generator's order
D_add_block_swapped(new_depth) ==
    LET prev_depth == PyAt(D.depths, -1) IN
    [D EXCEPT
       !.depths         = Append(@, new_depth),
       !.blocks         = Append(@, ProgressiveDiscriminatorBlock(prev_depth, new_depth)),
       !.fromRGB_blocks = Append(@, fromRGBBlock(D.input_dim, new_depth))]

D_add_block_result(new_depth) ==
    LET prev_depth == PyAt(D.depths, -1) IN
    [D EXCEPT
       !.depths         = Append(@, new_depth),
       !.blocks         = Append(@, ProgressiveDiscriminatorBlock(new_depth, prev_depth)),
       !.fromRGB_blocks = Append(@, fromRGBBlock(D.input_dim, new_depth))]

D_add_block(new_depth) ==
    /\ net = "D" /\ Enter("D.add_block", new_depth)
    /\ Len(D.blocks) < MaxBlocks
    /\ D' = D_add_block_result(new_depth)
    /\ Done
    /\ UNCHANGED <<net, G, x, x_prev, y, apply_merge, i, out, ret, trace>>

D_alpha_rejected(alpha) == alpha < 0 \/ alpha > AlphaDen

D_no_scale == Len(D.fromRGB_blocks) = 0

D_set_new_alpha(alpha) ==
    /\ net = "D" /\ Enter("D.set_new_alpha", alpha)
    /\ IF D_alpha_rejected(alpha)
          THEN Raise("ValueError") /\ D' = D
          ELSE IF D_no_scale
                  THEN Raise("AttributeError") /\ D' = D
                  ELSE D' = [D EXCEPT !.alpha = alpha] /\ Done
    /\ UNCHANGED <<net, G, x, x_prev, y, apply_merge, i, out, ret, trace>>

\* line 287
D_branch_computed == D.alpha > 0 /\ Len(D.fromRGB_blocks) > 1

\* line 295
D_apply_merge == D.alpha > 0 /\ Len(D.blocks) > 1

\* y = self.fromRGB_blocks[-2](x, apply_downscale=True), applied to image t
D_branch_error(t) ==
    IF ~PyHas(D.fromRGB_blocks, -2) THEN "IndexError"
    ELSE IF ~Fits(PyAt(D.fromRGB_blocks, -2), t) \/ ~Halvable(t) THEN "ShapeError"
    ELSE "none"

D_branch(t) ==
    fromRGBForward(PyAt(D.fromRGB_blocks, -2), PyPos(D.fromRGB_blocks, -2), t, TRUE)

\* the images a caller feeds: input_dim channels, side 4 * 2^k
InputSides == {BaseSide * Pow2(k) : k \in 0..MaxBlocks}

\* lines 287-295: the blend branch, the fromRGB projection, apply_merge
D_forward_fromRGB(side) ==
    /\ net = "D" /\ Enter("D.forward", side)
    /\ LET img == Tensor("rgb", D.input_dim, side, <<>>, -1, FALSE) IN
       IF D_branch_computed /\ D_branch_error(img) # "none"
          THEN Raise(D_branch_error(img)) /\ x' = img
               /\ UNCHANGED <<y, apply_merge, i, trace>>
          ELSE IF ~Fits(PyAt(D.fromRGB_blocks, -1), img)
                  THEN Raise("ShapeError") /\ x' = img
                       /\ UNCHANGED <<y, apply_merge, i, trace>>
                  ELSE /\ y' = IF D_branch_computed THEN D_branch(img) ELSE y
                       /\ trace' = IF D_branch_computed
                                      THEN Append(trace, Event("branch", D_branch(img)))
                                      ELSE trace
                       /\ x' = fromRGBForward(PyAt(D.fromRGB_blocks, -1),
                                              PyPos(D.fromRGB_blocks, -1), img, FALSE)
                       /\ apply_merge' = D_apply_merge
                       /\ i' = Len(D.blocks) - 1
                       /\ pc' = "d_loop" /\ err' = "none"
    /\ UNCHANGED <<net, G, D, x_prev, out, ret>>

\* one iteration of: for block in reversed(self.blocks)
D_forward_loop ==
    /\ pc = "d_loop" /\ i >= 0
    /\ LET block == PyAt(D.blocks, i)
           nx    == DiscriminatorBlockForward(block, i, x) IN
       IF ~Fits(block, x) \/ ~Halvable(x)
          THEN Raise("ShapeError") /\ UNCHANGED <<x, apply_merge, i, trace>>
          ELSE IF apply_merge /\ ~IsBound(y)
                  THEN Raise("UnboundLocalError") /\ x' = nx /\ apply_merge' = FALSE
                       /\ UNCHANGED <<i, trace>>
                  ELSE IF apply_merge /\ ~SameShape(y, nx)
                          THEN Raise("ShapeError") /\ x' = nx /\ apply_merge' = FALSE
                               /\ UNCHANGED <<i, trace>>
                          ELSE /\ x' = IF apply_merge THEN Blend(D.alpha, y, nx) ELSE nx
                               /\ trace' = IF apply_merge
                                              THEN Append(trace, Event("blend", nx))
                                              ELSE trace
                               /\ apply_merge' = FALSE
                               /\ i' = i - 1
                               /\ UNCHANGED <<pc, err>>
    /\ UNCHANGED <<net, G, D, call, arg, x_prev, y, out, ret>>

\* lines 303-312: the terminal block, the decision layer, return
D_forward_last(get_feature) ==
    /\ pc = "d_loop" /\ i < 0
    /\ IF ~Fits(D.minibatch_normalization_block, x) \/ x.side # BaseSide
          THEN Raise("ShapeError") /\ UNCHANGED <<x, out>>
          ELSE /\ x' = LastBlockForward(D.minibatch_normalization_block, x)
               /\ out' = [value |-> x', activated |-> FALSE, feature |-> get_feature]
               /\ Done
    /\ UNCHANGED <<net, G, D, call, arg, x_prev, y, apply_merge, i, ret, trace>>

\* ---------------------------------------------------------- specification
Init ==
    /\ net \in {"G", "D"}
    /\ \E first_depth \in Depths, generationActivation \in BOOLEAN :
          G = Generator(first_depth, generationActivation, OutputDim)
    /\ \E last_depth \in Depths : D = Discriminator(last_depth, InputDim)
    /\ pc = "idle" /\ call = "none" /\ arg = 0 /\ err = "none"
    /\ x = Unbound /\ x_prev = Unbound /\ y = Unbound
    /\ apply_merge = FALSE /\ i = 0 /\ out = NoOut /\ ret = 0 /\ trace = <<>>

Next ==
    \/ \E new_depth \in Depths : G_add_block(new_depth)
    \/ \E alpha \in AlphaInputs : G_set_new_alpha(alpha)
    \/ G_get_output_size
    \/ G_forward_first
    \/ G_forward_pre
    \/ G_forward_loop
    \/ G_forward_toRGB
    \/ G_forward_blend
    \/ \E new_depth \in Depths : D_add_block(new_depth)
    \/ \E alpha \in AlphaInputs : D_set_new_alpha(alpha)
    \/ \E side \in InputSides : D_forward_fromRGB(side)
    \/ D_forward_loop
    \/ \E get_feature \in BOOLEAN : D_forward_last(get_feature)
    \/ Return

Spec == Init /\ [][Next]_vars

\* ------------------------------------------------------- claim vocabulary
IsPrefix(s, t) == Len(s) <= Len(t) /\ \A k \in 1..Len(s) : s[k] = t[k]

\* events of one kind taken by the pass so far
EventsOf(ev) == SelectSeq(trace, LAMBDA e : e.ev = ev)

\* path of a generator feature map after first_block and growth blocks 0..n-1
GPath(n) == [k \in 1..(n + 1) |-> k - 2]

\* path of a discriminator feature map after growth blocks n-1 down to m
DPath(n, m) == [k \in 1..(n - m) |-> n - k]

Ended == pc \in {"done", "raised"}

G_growth == Len(G.blocks)
D_growth == Len(D.blocks)

\* the side of the image the architecture is built for
SideOf(n) == BaseSide * Pow2(n)

\* C1: on a network with zero growth blocks, set_new_alpha(v) with v in [0,1]
\* fails with the precondition error (AttributeError) and leaves alpha at 0.
C1_FreshSetAlphaFails ==
    /\ (Ended /\ call = "G.set_new_alpha" /\ G_growth = 0 /\ arg \in 0..AlphaDen)
          => (pc = "raised" /\ err = "AttributeError" /\ G.alpha = 0)
    /\ (Ended /\ call = "D.set_new_alpha" /\ D_growth = 0 /\ arg \in 0..AlphaDen)
          => (pc = "raised" /\ err = "AttributeError" /\ D.alpha = 0)

\* C2: with zero growth blocks, whatever alpha the generator holds, forward takes
\* no snapshot, never reads an unassigned snapshot, and returns the projection of
\* the first block's output through the single toRGB adapter (then the optional
\* activation).
C2_ZeroBlocksForward ==
    (call = "G.forward" /\ G_growth = 0) =>
        /\ ~IsBound(x_prev) /\ EventsOf("snapshot") = <<>>
        /\ pc # "raised"
        /\ pc = "done" =>
              /\ out.value = toRGBForward(G.toRGB_blocks[1], 0,
                     GeneratorBlockForward(G.first_block, FirstBlockId,
                         Tensor("feat", G.first_depth, BaseSide, <<>>, -1, FALSE)),
                     FALSE)
              /\ out.activated = G.generationActivation

\* C3: in Discriminator.forward, whenever the blend branch y was computed, the
\* blend is applied exactly once, right after the first block of the reverse
\* traversal (the newest block) and after no other, for every number >= 1 of
\* growth blocks.
C3_BlendOnceAtNewest ==
    (call = "D.forward" /\ IsBound(y) /\ pc \in {"d_loop", "done"}
        /\ i < D_growth - 1) =>
        /\ Len(EventsOf("blend")) = 1
        /\ EventsOf("blend")[1].path = <<D_growth - 1>>

\* C4: set_new_alpha(v) with v outside [0,1] fails with the range error (ValueError)
\* and leaves alpha, the depths and the block lists as they were; 0 and 1 pass
\* the range check; after a successful call alpha = v; alpha is in [0,1] always.
C4_Step ==
    (pc = "idle" /\ call' \in {"G.set_new_alpha", "D.set_new_alpha"}) =>
        /\ (arg' < 0 \/ arg' > AlphaDen)
              => (pc' = "raised" /\ err' = "ValueError" /\ G' = G /\ D' = D)
        /\ arg' \in {0, AlphaDen} => err' # "ValueError"
        /\ (pc' = "done" /\ call' = "G.set_new_alpha") => G'.alpha = arg'
        /\ (pc' = "done" /\ call' = "D.set_new_alpha") => D'.alpha = arg'
        /\ pc' = "raised" => (G' = G /\ D' = D)

\* C4 as one property: alpha stays in [0,1], and every set_new_alpha step is C4_Step.
C4_AlphaRange ==
    /\ [](G.alpha \in 0..AlphaDen /\ D.alpha \in 0..AlphaDen)
    /\ [][C4_Step]_vars

C4_Witness ==
    /\ pc = "raised" /\ call = "G.set_new_alpha" /\ err = "ValueError"
    /\ arg > AlphaDen /\ G.alpha = AlphaDen /\ G_growth >= 1

\* C5: add_block(d) appends d to the depth sequence, adds exactly one scale block
\* and one adapter, and leaves alpha unchanged; no step of any operation removes
\* or reorders an entry of the depth sequence or of the block and adapter lists.
C5_Step ==
    /\ (pc = "idle" /\ call' = "G.add_block") =>
          /\ G'.block_depths = Append(G.block_depths, arg')
          /\ Len(G'.blocks) = Len(G.blocks) + 1
          /\ Len(G'.toRGB_blocks) = Len(G.toRGB_blocks) + 1
          /\ G'.alpha = G.alpha
    /\ (pc = "idle" /\ call' = "D.add_block") =>
          /\ D'.depths = Append(D.depths, arg')
          /\ Len(D'.blocks) = Len(D.blocks) + 1
          /\ Len(D'.fromRGB_blocks) = Len(D.fromRGB_blocks) + 1
          /\ D'.alpha = D.alpha
    /\ IsPrefix(G.block_depths, G'.block_depths)
    /\ IsPrefix(G.blocks, G'.blocks)
    /\ IsPrefix(G.toRGB_blocks, G'.toRGB_blocks)
    /\ IsPrefix(D.depths, D'.depths)
    /\ IsPrefix(D.blocks, D'.blocks)
    /\ IsPrefix(D.fromRGB_blocks, D'.fromRGB_blocks)

\* C5 as one property: every step of every operation is C5_Step.
C5_AppendOnly == [][C5_Step]_vars

C5_Witness ==
    /\ pc = "done" /\ call = "G.add_block" /\ G_growth >= 2
    /\ G.block_depths[1] # arg /\ G.alpha > 0

\* C6: in every reachable state len(toRGB_blocks) = len(block_depths) =
\* len(blocks) + 1 in the generator and len(fromRGB_blocks) = len(depths) =
\* len(blocks) + 1 in the discriminator.
C6_Lengths ==
    /\ Len(G.toRGB_blocks) = Len(G.block_depths)
    /\ Len(G.block_depths) = Len(G.blocks) + 1
    /\ Len(D.fromRGB_blocks) = Len(D.depths)
    /\ Len(D.depths) = Len(D.blocks) + 1

C6_Witness ==
    /\ pc = "done" /\ call = "D.forward" /\ D_growth >= 2 /\ D.alpha > 0

\* C7: when alpha = 0 the lower-resolution branch contributes nothing, whatever the
\* number of growth blocks: the generator takes no snapshot and returns the last
\* toRGB adapter's projection of the final feature map; the discriminator
\* computes no blend branch, applies no blend, and scores the last fromRGB
\* adapter's projection run through all blocks in reverse order.
C7_AlphaZeroUnblended ==
    /\ (call = "G.forward" /\ G.alpha = 0) =>
          /\ ~IsBound(x_prev) /\ trace = <<>> /\ pc # "raised"
          /\ pc = "done" =>
                /\ out.value.kind = "rgb" /\ out.value.mix = <<>>
                /\ out.value.adapter = Len(G.toRGB_blocks) - 1
                /\ ~out.value.scaled
                /\ out.value.path = GPath(G_growth)
    /\ (call = "D.forward" /\ D.alpha = 0) =>
          /\ ~IsBound(y) /\ trace = <<>> /\ ~apply_merge
          /\ pc = "d_loop" => x.mix = <<>>
          /\ pc = "done" =>
                /\ out.value.kind = "feat" /\ out.value.mix = <<>>
                /\ out.value.adapter = Len(D.fromRGB_blocks) - 1
                /\ ~out.value.scaled
                /\ out.value.path = Append(DPath(D_growth, 0), LastBlockId)

C7_Witness ==
    /\ pc = "done" /\ call = "G.forward" /\ G.alpha = 0 /\ G_growth >= 2

\* C8: with k growth blocks get_output_size() returns (side, side), side = 4 * 2^k,
\* the side of the image forward generates in that state.
C8_OutputSize ==
    /\ (call = "G.get_output_size" /\ Ended) =>
          (pc = "done" /\ ret = BaseSide * Pow2(G_growth))
    /\ (call = "G.forward" /\ pc = "done") =>
          out.value.side = BaseSide * Pow2(G_growth)

\* C9: with n >= 1 growth blocks and alpha > 0, forward takes the snapshot exactly
\* once, from the feature map of the second-to-last scale (first_block's output
\* for n = 1, growth block n-2's output for n >= 2) through the second-to-last
\* toRGB adapter with upscaling, and returns alpha * snapshot + (1 - alpha) * final,
\* final the last toRGB adapter's projection of the last growth block's output.
C9_BlendedForward ==
    (call = "G.forward" /\ G_growth >= 1 /\ G.alpha > 0) =>
        /\ pc # "raised"
        /\ Len(EventsOf("snapshot")) <= 1
        /\ pc \in {"g_blend", "done"} =>
              /\ Len(EventsOf("snapshot")) = 1
              /\ x_prev.kind = "rgb" /\ x_prev.scaled
              /\ x_prev.adapter = Len(G.toRGB_blocks) - 2
              /\ x_prev.path = GPath(G_growth - 1)
        /\ pc = "done" =>
              /\ out.value.kind = "blend"
              /\ out.value.w = G.alpha
              /\ out.value.mix[1] = x_prev
              /\ out.value.mix[2].kind = "rgb" /\ ~out.value.mix[2].scaled
              /\ out.value.mix[2].adapter = Len(G.toRGB_blocks) - 1
              /\ out.value.mix[2].path = GPath(G_growth)

C9_Witness ==
    /\ pc = "done" /\ call = "G.forward" /\ G_growth >= 2
    /\ G.alpha > 0 /\ G.alpha < AlphaDen

\* C10: every layer forward uses receives the depth and resolution it was built
\* for, and the two blend operands agree in depth and side. Generator: growth
\* block i maps block_depths[i] to block_depths[i+1] at doubled side, toRGB j is
\* applied only to depth block_depths[j], the upscaled snapshot has the side of
\* the final projection. Discriminator: block i receives depths[i+1] and yields
\* depths[i] at halved side, the terminal block receives depths[0] at side 4, the
\* branch y has depth depths[-2] and the side of x after the newest block.
C10_ShapesAgree ==
    /\ err # "IndexError"
    /\ call = "G.forward" => err # "ShapeError"
    /\ (call = "D.forward" /\ arg = SideOf(D_growth)) => err # "ShapeError"
    /\ \A k \in 1..Len(G.blocks) :
          /\ G.blocks[k].din = G.block_depths[k]
          /\ G.blocks[k].dout = G.block_depths[k + 1]
    /\ \A j \in 1..Len(G.toRGB_blocks) : G.toRGB_blocks[j].din = G.block_depths[j]
    /\ (call = "G.forward" /\ x.kind = "feat") =>
          /\ x.depth = G.block_depths[Len(x.path)]
          /\ x.side = SideOf(Len(x.path) - 1)
    /\ (call = "G.forward" /\ IsBound(x_prev)) => x_prev.side = SideOf(G_growth)
    /\ (call = "G.forward" /\ pc = "g_blend") => x.side = SideOf(G_growth)
    /\ \A k \in 1..Len(D.blocks) :
          /\ D.blocks[k].din = D.depths[k + 1]
          /\ D.blocks[k].dout = D.depths[k]
    /\ \A j \in 1..Len(D.fromRGB_blocks) : D.fromRGB_blocks[j].dout = D.depths[j]
    /\ D.minibatch_normalization_block.din = D.depths[1]
    /\ (call = "D.forward" /\ pc = "d_loop") =>
          /\ x.depth = D.depths[i + 2]
          /\ x.side * Pow2(D_growth - 1 - i) = arg
    /\ (call = "D.forward" /\ pc = "d_loop" /\ i < 0 /\ arg = SideOf(D_growth)) =>
          (x.depth = D.depths[1] /\ x.side = BaseSide)
    /\ (call = "D.forward" /\ IsBound(y)) =>
          /\ y.depth = PyAt(D.depths, -2)
          /\ y.side * 2 = arg
          /\ (pc = "d_loop" /\ i = D_growth - 2) => SameShape(y, x)

C10_Witness ==
    /\ pc = "done" /\ call = "D.forward" /\ D_growth >= 2 /\ IsBound(y)
    /\ D.depths[1] # D.depths[2] /\ Len(EventsOf("blend")) = 1

====
